---- MODULE Spec2Model ----
(***************************************************************************)
(* A model of the statistical core of mu-correlators: the bootstrap        *)
(* resampler (src/bootstrap.py), the windowing primitive (src/fit.py),     *)
(* the correlated fit (src/correlators/corrfit.py) and the orchestrator    *)
(* handle_path (src/correlators/analysis.py).                              *)
(*                                                                         *)
(* Every behaviour is one call of one function: Init draws the function    *)
(* (op) and its arguments, the actions execute its body.  The two          *)
(* bootstrap loops are executed statement by statement; the other          *)
(* functions are executed in one step.  Functions are modelled from their  *)
(* bodies, with the module's global namespace as the module text binds it. *)
(* Floating-point results of library solvers are nondeterministic choices. *)
(***************************************************************************)
EXTENDS Integers, Sequences, FiniteSets, TLC

VARIABLES
    op,               \* the function this behaviour calls
    pc,               \* the position inside it
    args,             \* its arguments
    result,           \* generate_sample: the local list `result`
    sample_id,        \* bootstrap_*: the loop counter
    sample,           \* bootstrap_*: the local `sample`
    argument,         \* bootstrap_pre_transform: the local `argument`
    results,          \* bootstrap_*: the local list `results`
    transformed_sets, \* bootstrap_post_transform: the local `transformed_sets`
    trace,            \* the calls made so far, in order
    hp,               \* handle_path: its locals
    outcome           \* what the function returned or raised

vars == <<op, pc, args, result, sample_id, sample, argument, results,
          transformed_sets, trace, hp, outcome>>

----------------------------------------------------------------------------
(* Bounds of the model. *)

MaxSets == 2
MaxSampleCount == 2
MaxOut == 2
MaxSeriesLen == 10
MaxOmit == 3
MaxN == 2
MaxT == 2
MaxFitOmit == 1
MaxFitT == 4

----------------------------------------------------------------------------
(* Python values and call outcomes. *)

None == [tag |-> "None", v |-> <<>>]
List(s) == [tag |-> "list", v |-> s]
Iterator == [tag |-> "iterator", v |-> <<>>]
Object(o) == [tag |-> "object", v |-> o]

Return(v) == [kind |-> "return", exc |-> "", val |-> v]
Raise(e) == [kind |-> "raise", exc |-> e, val |-> None]
NoOutcome == [kind |-> "none", exc |-> "", val |-> None]

Elems == {<<1>>, <<2>>}
DataSets == UNION {[1..n -> Elems] : n \in 0..MaxSets}
OutVals == {<<10 + o>> : o \in 1..MaxOut}
Vals == {0, 1}
Ensembles == UNION {[1..n -> [1..t -> Vals]] : n \in 0..MaxN, t \in 1..MaxT}

FitEnsembles == UNION {[1..n -> [1..t -> Vals]] : n \in {1, 2}, t \in 1..MaxFitT}

Min(a, b) == IF a < b THEN a ELSE b

Called(fn, arg, out) == [fn |-> fn, arg |-> arg, out |-> out]

----------------------------------------------------------------------------
(* src/bootstrap.py *)

\* The names the module text of bootstrap.py binds at top level: `random`
\* (line 10) and its four functions.  It imports neither numpy (`np`) nor
\* defines `filenames`.
ModuleGlobals ==
    {"random", "bootstrap_pre_transform", "bootstrap_post_transform",
     "generate_sample", "average_arrays"}

\* The draws of random.choice over a list of length n, one per loop pass.
Choices(n) == [1..n -> 1..n]

\* generate_sample, lines 60-62: the local list built by the loop.
generate_sample_result(elements, ch) ==
    [i \in 1..Len(elements.v) |-> elements.v[ch[i]]]

\* generate_sample, lines 53-62: len() of an argument that has no length
\* raises; otherwise the loop fills `result` and the function ends without a
\* return statement, so the call evaluates to None.
generate_sample(elements, ch) ==
    IF elements.tag # "list" THEN Raise("TypeError")
    ELSE Return(None)

\* Sum of column j over the stacked arrays.
RECURSIVE ColumnSum(_, _, _)
ColumnSum(arrays, j, k) ==
    IF k = 0 THEN 0 ELSE arrays[k][j] + ColumnSum(arrays, j, k - 1)

\* np.mean(total, axis=1) as exact fractions <<numerator, denominator>>.
ColumnMeans(arrays) ==
    [j \in 1..Len(arrays[1]) |-> <<ColumnSum(arrays, j, Len(arrays)), Len(arrays)>>]

\* average_arrays, lines 65-74: line 69 looks up the global `np` and line 72
\* the global `filenames`; a name the module does not bind raises NameError.
average_arrays(arrays) ==
    IF "np" \notin ModuleGlobals THEN Raise("NameError")
    ELSE IF "filenames" \notin ModuleGlobals THEN Raise("NameError")
    ELSE Return(<<ColumnMeans(arrays.v), <<>> >>)

----------------------------------------------------------------------------
(* src/fit.py *)

\* Python's normalisation of a slice bound against a length n.
SliceBound(i, n) ==
    IF i < 0 THEN (IF i + n < 0 THEN 0 ELSE i + n)
    ELSE (IF i > n THEN n ELSE i)

\* s[start:stop]
Slice(s, start, stop) ==
    LET a == SliceBound(start, Len(s))
        b == SliceBound(stop, Len(s))
    IN  IF a >= b THEN <<>> ELSE SubSeq(s, a + 1, b)

\* s[start:]
SliceFrom(s, start) == Slice(s, start, Len(s))

\* _cut, lines 13-24.  Subscripting None (yerr) raises TypeError.
\* With omit_post # 0 the stop index is -omit_post - 1.
_cut(x, y, yerr, omit_pre, omit_post) ==
    IF omit_post = 0
    THEN IF yerr.tag # "list" THEN Raise("TypeError")
         ELSE Return(<<SliceFrom(x, omit_pre), SliceFrom(y, omit_pre),
                       SliceFrom(yerr.v, omit_pre)>>)
    ELSE LET end == - omit_post - 1
         IN  IF yerr.tag # "list" THEN Raise("TypeError")
             ELSE Return(<<Slice(x, omit_pre, end), Slice(y, omit_pre, end),
                           Slice(yerr.v, omit_pre, end)>>)

----------------------------------------------------------------------------
(* src/correlators/corrfit.py *)

\* The matrix m without row i and column j.
Minor(m, i, j) ==
    [a \in 1..(Len(m) - 1) |->
        [b \in 1..(Len(m) - 1) |->
            m[IF a < i THEN a ELSE a + 1][IF b < j THEN b ELSE b + 1]]]

\* The determinant, by expansion along the first row.
RECURSIVE Det(_), DetRow(_, _)
DetRow(m, j) ==
    IF j = 0 THEN 0
    ELSE (IF j % 2 = 1 THEN 1 ELSE -1) * m[1][j] * Det(Minor(m, 1, j))
         + DetRow(m, j - 1)
Det(m) ==
    IF Len(m) = 0 THEN 1
    ELSE IF Len(m) = 1 THEN m[1][1]
    ELSE DetRow(m, Len(m))

\* Entry (i, j) of the adjugate of m.
Adjugate(m, i, j) ==
    (IF (i + j) % 2 = 0 THEN 1 ELSE -1) * Det(Minor(m, j, i))

AllZero(m) == \A i \in 1..Len(m) : \A j \in 1..Len(m) : m[i][j] = 0

RECURSIVE Covariation(_, _, _, _)
\* sum over the first k series of (N x_ki - S_i) (N x_kj - S_j), which is
\* N^2 times (vec.T * vec)[i][j] of line 81.
Covariation(sets, i, j, k) ==
    IF k = 0 THEN 0
    ELSE LET N == Len(sets) IN
         (N * sets[k][i] - ColumnSum(sets, i, N))
           * (N * sets[k][j] - ColumnSum(sets, j, N))
         + Covariation(sets, i, j, k - 1)

\* correlation_matrix, lines 74-96, in exact fractions num/den.  The factor
\* 1/(N*(N-1)) of line 81 is evaluated first and divides by zero for N <= 1.
correlation_matrix(sets) ==
    LET N == Len(sets) IN
    IF N * (N - 1) = 0 THEN Raise("ZeroDivisionError")
    ELSE LET T == Len(sets[1]) IN
         Return(<<[num |-> [i \in 1..T |-> [j \in 1..T |->
                               Covariation(sets, i, j, N)]],
                   den |-> N * N * N * (N - 1)],
                  [num |-> [j \in 1..T |-> ColumnSum(sets, j, N)], den |-> N]>>)

\* cm.getI() of line 140, for the square matrix cm: numpy's inv.  It raises
\* LinAlgError when the factorisation meets an exactly zero pivot.  For a
\* singular matrix that is not the zero matrix, rounding decides whether the
\* pivot is exactly zero (zero_pivot); when it is not, an inverse of huge
\* entries is returned without an error.
getI(cm, zero_pivot) ==
    IF Det(cm.num) # 0
    THEN Return([exact |-> TRUE,
                 num |-> [i \in 1..Len(cm.num) |-> [j \in 1..Len(cm.num) |->
                             cm.den * Adjugate(cm.num, i, j)]],
                 den |-> Det(cm.num)])
    ELSE IF AllZero(cm.num) \/ zero_pivot THEN Raise("LinAlgError")
    ELSE Return([exact |-> FALSE, num |-> cm.num, den |-> 0])

\* What scipy's Powell minimizer may report for the seed p0: the parameter
\* vector it stopped at (the seed, or another one) and whether it converged.
OptimizeResults(p0) ==
    [x : {p0, [i \in 1..Len(p0) |-> p0[i] + 1]}, success : BOOLEAN]

\* The classes of values of the chi-square at res.x.
ChiSquares == {"zero", "positive"}

\* The library outcomes one call of curve_fit_correlated depends on.
FitChoices(p0) ==
    [zero_pivot : BOOLEAN, res : OptimizeResults(p0), chi_sq : ChiSquares]

\* curve_fit_correlated, lines 147-156, given the matrix and its inverse:
\* build the minimizer, run Powell, print the message of a result whose
\* success is false (lines 151-152) and return res.x and the chi-square at
\* res.x like for any other result (line 156).
curve_fit_correlated_minimize(cm, inv_cm, ydata, p0, nd) ==
    [out |-> Return(<<nd.res.x, nd.chi_sq>>),
     calls |-> <<Called("correlation_matrix", ydata, cm),
                 Called("getI", cm.val[1], inv_cm),
                 Called("generate_chi_sq_minimizer", inv_cm.val, Return(None)),
                 Called("minimize", p0, Return(nd.res))>>
               \o (IF ~ nd.res.success
                   THEN <<Called("print", "res.message", Return(None))>>
                   ELSE <<>>)
               \o <<Called("chi_sq_minimizer", nd.res.x, Return(nd.chi_sq))>>]

\* curve_fit_correlated, lines 139-145, given the matrix and what getI did:
\* a LinAlgError is printed with the matrix and re-raised.
curve_fit_correlated_inverse(cm, inv_cm, ydata, p0, nd) ==
    IF inv_cm.kind = "raise"
    THEN [out |-> inv_cm,
          calls |-> <<Called("correlation_matrix", ydata, cm),
                      Called("getI", cm.val[1], inv_cm),
                      Called("print", cm.val[1], Return(None))>>]
    ELSE curve_fit_correlated_minimize(cm, inv_cm, ydata, p0, nd)

\* curve_fit_correlated, line 138, given what correlation_matrix did: its
\* exception propagates.
curve_fit_correlated_matrix(cm, ydata, p0, nd) ==
    IF cm.kind = "raise"
    THEN [out |-> cm, calls |-> <<Called("correlation_matrix", ydata, cm)>>]
    ELSE curve_fit_correlated_inverse(cm, getI(cm.val[1], nd.zero_pivot),
                                      ydata, p0, nd)

\* curve_fit_correlated, lines 137-156: its outcome and the calls it makes.
curve_fit_correlated(function, xdata, ydata, p0, nd) ==
    curve_fit_correlated_matrix(correlation_matrix(ydata), ydata, p0, nd)

\* 1 - scipy.stats.chi2.cdf(chi_sq, dof), line 166: nan for dof <= 0.
p_value(chi_sq, dof) ==
    IF dof <= 0 THEN <<"nan">> ELSE <<"1 - chi2.cdf", chi_sq, dof>>

\* y.T (line 160) and used_y.T (line 161) of a matrix of `rows` rows and
\* `cols` columns.
Transposed(m, rows, cols) ==
    [c \in 1..cols |-> [r \in 1..rows |-> m[r][c]]]

\* corrfit.fit, lines 164-184, given the windowed data and what
\* curve_fit_correlated did: the p-value of line 166 is computed and
\* returned for any number of degrees of freedom.
fit_p_value(used_x, cfc, calls) ==
    IF cfc.out.kind = "raise" THEN [out |-> cfc.out, calls |-> calls \o cfc.calls]
    ELSE [out |-> Return(<<cfc.out.val[1], cfc.out.val[2],
                           p_value(cfc.out.val[2],
                                   Len(used_x) - 1 - Len(cfc.out.val[1]))>>),
          calls |-> calls \o cfc.calls]

\* corrfit.fit, lines 160-164, given what _cut did: its exception
\* propagates; otherwise the windowed ensemble is fitted.
fit_cut(cut, func, y, omit_pre, omit_post, p0, nd) ==
    IF cut.kind = "raise"
    THEN [out |-> cut, calls |-> <<Called("_cut", <<omit_pre, omit_post>>, cut)>>]
    ELSE fit_p_value(cut.val[1],
                     curve_fit_correlated(
                         func, cut.val[1],
                         Transposed(cut.val[2], Len(cut.val[1]), Len(y)), p0, nd),
                     <<Called("_cut", <<omit_pre, omit_post>>, cut)>>)

\* corrfit.fit, lines 159-184.  Line 160 passes None for yerr to _cut.
fit(func, x, y, omit_pre, omit_post, p0, nd) ==
    fit_cut(_cut(x, Transposed(y, Len(y), Len(x)), None, omit_pre, omit_post),
            func, y, omit_pre, omit_post, p0, nd)

----------------------------------------------------------------------------
(* src/correlators/analysis.py *)

\* The keys of ENSENBLE_DATA, lines 31-86.
EnsembleNames ==
    {"A30.32", "A40.32", "A40.24", "A40.20", "D45.32", "B55.32", "A60.24",
     "A80.24", "A100.24"}

\* sample_count's default, bootstrap.py line 13.
SampleCountDefault == 100

\* omit_pre of the fits, analysis.py lines 205, 208, 240, 243.
OmitPre == 13

\* The closures the two decorators return (lines 193-224, 227-261).
mass_difference_decorator(T, L) ==
    [name |-> "mass_difference", T |-> T, L |-> L]
mass_difference_correlated_decorator(T, L, p0_2, p0_4) ==
    [name |-> "mass_difference_correlated", T |-> T, L |-> L,
     p0_2 |-> p0_2, p0_4 |-> p0_4]

\* The tuple mass_difference returns, line 222.
MassDifferenceReturn ==
    <<"m2", "m4", "delta_m", "a0", "amp2", "amp4", "offset", "a0*m2", "m2**2">>

\* The tuple mass_difference_correlated returns, lines 258-259.
MassDifferenceCorrelatedReturn ==
    MassDifferenceReturn \o <<"chi_sq_2", "chi_sq_4", "p_value_2", "p_value_4">>

\* mass_difference, lines 194-222.  Line 195 reads the attribute
\* average_combined_array of the bootstrap module, which does not define it.
mass_difference(f, sets) ==
    IF "average_combined_array" \notin ModuleGlobals THEN Raise("AttributeError")
    ELSE Return(Object(MassDifferenceReturn))

\* mass_difference_correlated, lines 246-259, given what the two fits did.
mass_difference_correlated_result(fit2, fit4) ==
    IF fit2.kind = "raise" THEN fit2
    ELSE IF fit4.kind = "raise" THEN fit4
    ELSE Return(Object(MassDifferenceCorrelatedReturn))

\* mass_difference_correlated, lines 235-243: the time axis and the fits of
\* the two-point and the four-point ensemble with corrfit.fit.
mass_difference_correlated_fits(f, sets2, sets4, nd2, nd4) ==
    IF sets2 = <<>> THEN Raise("IndexError")
    ELSE mass_difference_correlated_result(
             fit("cosh_fit", [i \in 1..Len(sets2[1]) |-> i - 1], sets2,
                 OmitPre, 0, f.p0_2, nd2).out,
             fit("cosh_fit_offset", [i \in 1..Len(sets2[1]) |-> i - 1], sets4,
                 OmitPre, 0, f.p0_4, nd4).out)

\* mass_difference_correlated, lines 228-259: unzip the pairs (line 229),
\* then fit.
mass_difference_correlated(f, sets, nd2, nd4) ==
    IF sets.tag # "list" THEN Raise("TypeError")
    ELSE mass_difference_correlated_fits(
             f, [i \in 1..Len(sets.v) |-> sets.v[i][1]],
             [i \in 1..Len(sets.v) |-> sets.v[i][2]], nd2, nd4)

\* zip(two_points, four_points), line 110 (Python 2: a list of pairs).
Zip(a, b) == [i \in 1..Min(Len(a), Len(b)) |-> <<a[i], b[i]>>]

\* The positions of val that seed the correlated fits, lines 120-121.
p0_2_of(val) == <<val[0 + 1], val[4 + 1]>>
p0_4_of(val) == <<val[1 + 1], val[5 + 1], val[6 + 1]>>

----------------------------------------------------------------------------
(* Initial states: one call of one function, arguments from bounded sets. *)

Series(n) == [i \in 1..n |-> i - 1]

\* Seeds of two and of three parameters (analysis.py lines 120-121).
Seeds == {<<1, 1>>, <<1, 1, 1>>}

\* What the loader hands handle_path (line 95).
LoaderResults ==
    {[stage |-> "start",
      two_points |-> [i \in 1..n2 |-> <<i, i>>],
      four_points |-> [i \in 1..n4 |-> <<10 + i, 10 + i>>],
      parameters |-> [ensemble |-> e, T |-> 48, L |-> 24],
      combined |-> <<>>, val |-> <<>>, err |-> <<>>, runs |-> <<>>] :
        n2 \in 0..MaxSets, n4 \in 0..MaxSets, e \in {"A40.24", "Z99.99"}}

InitCurveFitCorrelated ==
    /\ op = "curve_fit_correlated"
    /\ args \in {[function |-> "cosh_fit",
                  xdata |-> Series(IF e = <<>> THEN 0 ELSE Len(e[1])),
                  ydata |-> e, p0 |-> p] : e \in Ensembles, p \in Seeds}

InitFit ==
    /\ op = "fit"
    /\ args \in {[func |-> "cosh_fit", x |-> Series(Len(e[1])), y |-> e,
                  omit_pre |-> a, omit_post |-> b, p0 |-> p] :
                    e \in FitEnsembles, a \in 0..MaxFitOmit,
                    b \in 0..MaxFitOmit, p \in Seeds}

InitHandlePath ==
    /\ op = "handle_path"
    /\ args = [path |-> "path"]

InitGenerateSample ==
    /\ op = "generate_sample"
    /\ args \in {[elements |-> e] : e \in {List(d) : d \in DataSets} \cup {Iterator}}

InitCut ==
    /\ op = "_cut"
    /\ args \in {[x |-> Series(n), y |-> [i \in 1..n |-> 100 + i - 1],
                  yerr |-> IF has_yerr THEN List([i \in 1..n |-> 1]) ELSE None,
                  omit_pre |-> a, omit_post |-> b] :
                    n \in 0..MaxSeriesLen, has_yerr \in BOOLEAN,
                    a \in 0..MaxOmit, b \in 0..MaxOmit}

BootstrapArgs ==
    [transform : {[name |-> "callable"]},
     sets : {List(d) : d \in DataSets} \cup {Iterator},
     reduction : {"callable", "average_arrays"},
     sample_count : 0..MaxSampleCount]

InitBootstrapPreTransform ==
    /\ op = "bootstrap_pre_transform"
    /\ args \in BootstrapArgs

InitBootstrapPostTransform ==
    /\ op = "bootstrap_post_transform"
    /\ args \in BootstrapArgs

InitAverageArrays ==
    /\ op = "average_arrays"
    /\ args \in {[arrays |-> List(e)] : e \in Ensembles}

Init ==
    /\ pc = "call"
    /\ result = <<>>
    /\ sample_id = 0
    /\ sample = None
    /\ argument = None
    /\ results = <<>>
    /\ transformed_sets = <<>>
    /\ trace = <<>>
    /\ outcome = NoOutcome
    /\ \/ InitGenerateSample
       \/ InitCut
       \/ InitAverageArrays
       \/ InitBootstrapPreTransform
       \/ InitBootstrapPostTransform
       \/ InitCurveFitCorrelated
       \/ InitFit
       \/ InitHandlePath
    /\ hp \in (IF op = "handle_path" THEN LoaderResults ELSE {[stage |-> "none"]})

----------------------------------------------------------------------------
(* Actions. *)

\* One call of generate_sample.
GenerateSample ==
    /\ op = "generate_sample" /\ pc = "call"
    /\ \E ch \in Choices(Len(args.elements.v)) :
          /\ result' = IF args.elements.tag = "list"
                       THEN generate_sample_result(args.elements, ch) ELSE <<>>
          /\ outcome' = generate_sample(args.elements, ch)
    /\ pc' = "done"
    /\ UNCHANGED <<op, args, sample_id, sample, argument, results,
                   transformed_sets, trace, hp>>

\* One call of _cut.
Cut ==
    /\ op = "_cut" /\ pc = "call"
    /\ outcome' = _cut(args.x, args.y, args.yerr, args.omit_pre, args.omit_post)
    /\ pc' = "done"
    /\ UNCHANGED <<op, args, result, sample_id, sample, argument, results,
                   transformed_sets, trace, hp>>

\* One call of average_arrays.
AverageArrays ==
    /\ op = "average_arrays" /\ pc = "call"
    /\ outcome' = average_arrays(args.arrays)
    /\ pc' = "done"
    /\ UNCHANGED <<op, args, result, sample_id, sample, argument, results,
                   transformed_sets, trace, hp>>

\* What a caller-supplied callable may do with an argument: return some
\* object or raise.
CallableOutcomes == {Return(Object(o)) : o \in OutVals} \cup {Raise("Exception")}

\* reduction(sample): the default is average_arrays (lines 12 and 32).
Reduction(f, arg, r) ==
    IF f = "average_arrays" THEN average_arrays(arg) ELSE r

\* transform(argument): a closure of analysis.py or a caller's callable.
Transform(f, arg, r, nd2, nd4) ==
    IF f.name = "mass_difference" THEN mass_difference(f, arg)
    ELSE IF f.name = "mass_difference_correlated"
    THEN mass_difference_correlated(f, arg, nd2, nd4)
    ELSE r

\* The library outcomes a transform may depend on.
TransformChoices(f) ==
    IF f.name = "mass_difference_correlated"
    THEN FitChoices(f.p0_2) \X FitChoices(f.p0_4)
    ELSE {<<0, 0>>}

\* bootstrap_pre_transform, line 21.
PreStart ==
    /\ op = "bootstrap_pre_transform" /\ pc = "call"
    /\ results' = <<>>
    /\ sample_id' = 0
    /\ pc' = "pre_loop"
    /\ UNCHANGED <<op, args, result, sample, argument, transformed_sets,
                   trace, hp, outcome>>

\* bootstrap_pre_transform, lines 22-23: the loop test and generate_sample.
PreGenerateSample ==
    /\ pc = "pre_loop" /\ sample_id < args.sample_count
    /\ \E ch \in Choices(Len(args.sets.v)) :
          LET out == generate_sample(args.sets, ch) IN
          /\ trace' = Append(trace, Called("generate_sample", args.sets, out))
          /\ IF out.kind = "raise"
             THEN /\ pc' = "raised" /\ outcome' = out /\ UNCHANGED sample
             ELSE /\ pc' = "pre_reduction" /\ sample' = out.val
                  /\ UNCHANGED outcome
    /\ UNCHANGED <<op, args, result, sample_id, argument, results,
                   transformed_sets, hp>>

\* Mutant of PreReduction: a failing reduction is skipped and the loop goes on.
PreReduction_swallow ==
    /\ pc = "pre_reduction"
    /\ \E r \in CallableOutcomes :
          LET out == Reduction(args.reduction, sample, r) IN
          /\ trace' = Append(trace, Called("reduction", sample, out))
          /\ IF out.kind = "raise"
             THEN /\ pc' = "pre_loop" /\ sample_id' = sample_id + 1
                  /\ UNCHANGED argument
             ELSE /\ pc' = "pre_transform" /\ argument' = out.val
                  /\ UNCHANGED sample_id
    /\ UNCHANGED <<op, args, result, sample, results, transformed_sets, hp,
                   outcome>>

\* bootstrap_pre_transform, line 24.
PreReduction ==
    /\ pc = "pre_reduction"
    /\ \E r \in CallableOutcomes :
          LET out == Reduction(args.reduction, sample, r) IN
          /\ trace' = Append(trace, Called("reduction", sample, out))
          /\ IF out.kind = "raise"
             THEN /\ pc' = "raised" /\ outcome' = out /\ UNCHANGED argument
             ELSE /\ pc' = "pre_transform" /\ argument' = out.val
                  /\ UNCHANGED outcome
    /\ UNCHANGED <<op, args, result, sample_id, sample, results,
                   transformed_sets, hp>>

\* Mutant of PreTransform: the reduction result is collected, not the
\* transform's output.
PreTransform_collects_argument ==
    /\ pc = "pre_transform"
    /\ \E r \in CallableOutcomes, nd \in TransformChoices(args.transform) :
          LET out == Transform(args.transform, argument, r, nd[1], nd[2]) IN
          /\ trace' = Append(trace, Called("transform", argument, out))
          /\ IF out.kind = "raise"
             THEN /\ pc' = "raised" /\ outcome' = out
                  /\ UNCHANGED <<results, sample_id>>
             ELSE /\ pc' = "pre_loop" /\ results' = Append(results, argument)
                  /\ sample_id' = sample_id + 1
                  /\ UNCHANGED outcome
    /\ UNCHANGED <<op, args, result, sample, argument, transformed_sets, hp>>

\* bootstrap_pre_transform, line 25, and the loop increment.
PreTransform ==
    /\ pc = "pre_transform"
    /\ \E r \in CallableOutcomes, nd \in TransformChoices(args.transform) :
          LET out == Transform(args.transform, argument, r, nd[1], nd[2]) IN
          /\ trace' = Append(trace, Called("transform", argument, out))
          /\ IF out.kind = "raise"
             THEN /\ pc' = "raised" /\ outcome' = out
                  /\ UNCHANGED <<results, sample_id>>
             ELSE /\ pc' = "pre_loop" /\ results' = Append(results, out.val)
                  /\ sample_id' = sample_id + 1
                  /\ UNCHANGED outcome
    /\ UNCHANGED <<op, args, result, sample, argument, transformed_sets, hp>>

\* bootstrap_pre_transform, lines 27-29: the loop is over; aggregate, return.
PreAverage ==
    /\ pc = "pre_loop" /\ ~ (sample_id < args.sample_count)
    /\ LET out == average_arrays(List(results)) IN
          /\ trace' = Append(trace, Called("average_arrays", List(results), out))
          /\ outcome' = out
          /\ pc' = IF out.kind = "raise" THEN "raised" ELSE "returned"
    /\ UNCHANGED <<op, args, result, sample_id, sample, argument, results,
                   transformed_sets, hp>>

\* The calls map(transform, sets) makes (Python 2: eagerly, in order), given
\* what each call does: it stops at the first call that raises.
RECURSIVE MapCalls(_, _, _)
MapCalls(elems, outs, i) ==
    IF i > Len(elems) THEN <<>>
    ELSE <<Called("transform", Object(elems[i]), outs[i])>>
         \o (IF outs[i].kind = "raise" THEN <<>> ELSE MapCalls(elems, outs, i + 1))

\* bootstrap_post_transform, lines 41-43.
PostMap ==
    /\ op = "bootstrap_post_transform" /\ pc = "call"
    /\ \E outs \in [1..Len(args.sets.v) -> CallableOutcomes] :
          LET calls == MapCalls(args.sets.v,
                                [i \in 1..Len(args.sets.v) |->
                                    Transform(args.transform, Object(args.sets.v[i]),
                                              outs[i], 0, 0)],
                                1)
              failed == calls # <<>> /\ calls[Len(calls)].out.kind = "raise"
          IN
          /\ trace' = trace \o calls
          /\ IF failed
             THEN /\ pc' = "raised" /\ outcome' = calls[Len(calls)].out
                  /\ UNCHANGED <<transformed_sets, results, sample_id>>
             ELSE /\ transformed_sets' = [i \in 1..Len(calls) |-> calls[i].out.val]
                  /\ results' = <<>>
                  /\ sample_id' = 0
                  /\ pc' = "post_loop"
                  /\ UNCHANGED outcome
    /\ UNCHANGED <<op, args, result, sample, argument, hp>>

\* bootstrap_post_transform, lines 44-45.
PostGenerateSample ==
    /\ pc = "post_loop" /\ sample_id < args.sample_count
    /\ \E ch \in Choices(Len(transformed_sets)) :
          LET out == generate_sample(List(transformed_sets), ch) IN
          /\ trace' = Append(trace, Called("generate_sample", List(transformed_sets), out))
          /\ IF out.kind = "raise"
             THEN /\ pc' = "raised" /\ outcome' = out /\ UNCHANGED sample
             ELSE /\ pc' = "post_reduction" /\ sample' = out.val
                  /\ UNCHANGED outcome
    /\ UNCHANGED <<op, args, result, sample_id, argument, results,
                   transformed_sets, hp>>

\* Mutant of PostReduction: the loop body of bootstrap_pre_transform, which
\* transforms the reduction of each resample.
PostReduction_transforms ==
    /\ pc = "post_reduction"
    /\ \E r \in CallableOutcomes, t \in CallableOutcomes :
          LET out == Reduction(args.reduction, sample, r) IN
          /\ IF out.kind = "raise"
             THEN /\ trace' = Append(trace, Called("reduction", sample, out))
                  /\ pc' = "raised" /\ outcome' = out
                  /\ UNCHANGED <<results, sample_id>>
             ELSE /\ trace' = trace \o <<Called("reduction", sample, out),
                                         Called("transform", out.val, t)>>
                  /\ pc' = "post_loop" /\ results' = Append(results, t.val)
                  /\ sample_id' = sample_id + 1
                  /\ UNCHANGED outcome
    /\ UNCHANGED <<op, args, result, sample, argument, transformed_sets, hp>>

\* bootstrap_post_transform, line 46, and the loop increment.
PostReduction ==
    /\ pc = "post_reduction"
    /\ \E r \in CallableOutcomes :
          LET out == Reduction(args.reduction, sample, r) IN
          /\ trace' = Append(trace, Called("reduction", sample, out))
          /\ IF out.kind = "raise"
             THEN /\ pc' = "raised" /\ outcome' = out
                  /\ UNCHANGED <<results, sample_id>>
             ELSE /\ pc' = "post_loop" /\ results' = Append(results, out.val)
                  /\ sample_id' = sample_id + 1
                  /\ UNCHANGED outcome
    /\ UNCHANGED <<op, args, result, sample, argument, transformed_sets, hp>>

\* bootstrap_post_transform, lines 48-50.
PostAverage ==
    /\ pc = "post_loop" /\ ~ (sample_id < args.sample_count)
    /\ LET out == average_arrays(List(results)) IN
          /\ trace' = Append(trace, Called("average_arrays", List(results), out))
          /\ outcome' = out
          /\ pc' = IF out.kind = "raise" THEN "raised" ELSE "returned"
    /\ UNCHANGED <<op, args, result, sample_id, sample, argument, results,
                   transformed_sets, hp>>

\* One call of curve_fit_correlated.
CurveFitCorrelated ==
    /\ op = "curve_fit_correlated" /\ pc = "call"
    /\ \E nd \in FitChoices(args.p0) :
          LET r == curve_fit_correlated(args.function, args.xdata, args.ydata,
                                        args.p0, nd) IN
          /\ outcome' = r.out
          /\ trace' = r.calls
    /\ pc' = "done"
    /\ UNCHANGED <<op, args, result, sample_id, sample, argument, results,
                   transformed_sets, hp>>

\* One call of corrfit.fit.
Fit ==
    /\ op = "fit" /\ pc = "call"
    /\ \E nd \in FitChoices(args.p0) :
          LET r == fit(args.func, args.x, args.y, args.omit_pre,
                       args.omit_post, args.p0, nd) IN
          /\ outcome' = r.out
          /\ trace' = r.calls
    /\ pc' = "done"
    /\ UNCHANGED <<op, args, result, sample_id, sample, argument, results,
                   transformed_sets, hp>>

\* handle_path, lines 94-118: look the ensemble up, zip the two datasets
\* and enter the uncorrelated bootstrap_pre_transform (its line 21).
HandlePathStart ==
    /\ op = "handle_path" /\ pc = "call"
    /\ IF hp.parameters.ensemble \notin EnsembleNames
       THEN /\ outcome' = Raise("KeyError")
            /\ pc' = "done"
            /\ hp' = [hp EXCEPT !.stage = "raised"]
            /\ UNCHANGED <<args, results, sample_id>>
       ELSE LET combined == Zip(hp.two_points, hp.four_points)
                call == [transform |-> mass_difference_decorator(
                                           hp.parameters.T, hp.parameters.L),
                         sets |-> List(combined),
                         reduction |-> "average_arrays",
                         sample_count |-> SampleCountDefault]
            IN  /\ hp' = [hp EXCEPT !.stage = "uncorrelated",
                                    !.combined = combined,
                                    !.runs = <<call>>]
                /\ args' = call
                /\ results' = <<>>
                /\ sample_id' = 0
                /\ pc' = "pre_loop"
                /\ UNCHANGED outcome
    /\ UNCHANGED <<op, result, sample, argument, transformed_sets, trace>>

\* handle_path, lines 115-190, when a bootstrap_pre_transform call ends:
\* an exception propagates; the uncorrelated run's val seeds the correlated
\* run on the same combined list; the correlated run's result is packaged.
HandlePathResume ==
    /\ op = "handle_path" /\ pc \in {"raised", "returned"}
    /\ IF outcome.kind = "raise"
       THEN /\ hp' = [hp EXCEPT !.stage = "raised"]
            /\ pc' = "done"
            /\ UNCHANGED <<args, results, sample_id, outcome>>
       ELSE IF hp.stage = "uncorrelated"
       THEN LET val == outcome.val[1]
                err == outcome.val[2]
                call == [transform |-> mass_difference_correlated_decorator(
                                           hp.parameters.T, hp.parameters.L,
                                           p0_2_of(val), p0_4_of(val)),
                         sets |-> List(hp.combined),
                         reduction |-> "average_arrays",
                         sample_count |-> SampleCountDefault]
            IN  /\ hp' = [hp EXCEPT !.stage = "correlated", !.val = val,
                                    !.err = err, !.runs = Append(@, call)]
                /\ args' = call
                /\ results' = <<>>
                /\ sample_id' = 0
                /\ pc' = "pre_loop"
                /\ outcome' = NoOutcome
       ELSE /\ hp' = [hp EXCEPT !.stage = "returned"]
            /\ outcome' = Return(<<hp.parameters.ensemble, hp.val, hp.err,
                                   outcome.val[1], outcome.val[2]>>)
            /\ pc' = "done"
            /\ UNCHANGED <<args, results, sample_id>>
    /\ UNCHANGED <<op, result, sample, argument, transformed_sets, trace>>

Next ==
    \/ CurveFitCorrelated
    \/ Fit
    \/ HandlePathStart
    \/ HandlePathResume
    \/ GenerateSample
    \/ Cut
    \/ AverageArrays
    \/ PreStart
    \/ PreGenerateSample
    \/ PreReduction
    \/ PreTransform
    \/ PreAverage
    \/ PostMap
    \/ PostGenerateSample
    \/ PostReduction
    \/ PostAverage

Spec == Init /\ [][Next]_vars

----------------------------------------------------------------------------
(* Claims. *)

Range(s) == {s[i] : i \in 1..Len(s)}

Aggregated == trace # <<>> /\ trace[Len(trace)].fn = "average_arrays"

\* C1: for every non-empty sequence D, generate_sample(D) returns a sequence
\* of length len(D) whose every entry is an element of D.
C1_SampleReturned ==
    (op = "generate_sample" /\ pc = "done" /\ args.elements.tag = "list"
        /\ Len(args.elements.v) > 0)
    => /\ outcome.kind = "return"
       /\ outcome.val.tag = "list"
       /\ Len(outcome.val.v) = Len(args.elements.v)
       /\ Range(outcome.val.v) \subseteq Range(args.elements.v)

\* C2: for a series of length n and omit_pre, omit_post >= 0 with
\* omit_pre + omit_post <= n, _cut returns exactly the elements at indices
\* omit_pre .. n-1-omit_post (n - omit_pre - omit_post elements).
C2_CutKeepsWindow ==
    (op = "_cut" /\ pc = "done" /\ args.yerr.tag = "list"
        /\ args.omit_pre + args.omit_post <= Len(args.x))
    => /\ outcome.kind = "return"
       /\ outcome.val[1] = SubSeq(args.x, args.omit_pre + 1, Len(args.x) - args.omit_post)
       /\ outcome.val[2] = SubSeq(args.y, args.omit_pre + 1, Len(args.y) - args.omit_post)
       /\ Len(outcome.val[1]) = Len(args.x) - args.omit_pre - args.omit_post

CallOrder == <<"generate_sample", "reduction", "transform">>

C5_IdenticalArrays ==
    (op = "average_arrays" /\ pc = "done" /\ Len(args.arrays.v) >= 1
        /\ \A k \in 1..Len(args.arrays.v) : args.arrays.v[k] = args.arrays.v[1])
    => /\ outcome.kind = "return"
       /\ LET V == args.arrays.v[1] IN
          /\ Len(outcome.val[1]) = Len(V)
          /\ \A j \in 1..Len(V) :
                outcome.val[1][j][1] = V[j] * outcome.val[1][j][2]
          /\ outcome.val[2] = [j \in 1..Len(V) |-> 0]

\* C6: if generate_sample, reduction or transform fails in an iteration of
\* bootstrap_pre_transform, the run ends with that error: no later call is
\* made (no further iteration, no average_arrays over the partial buffer)
\* and nothing is returned.
C6_ErrorAbortsRun ==
    op = "bootstrap_pre_transform" =>
        \A j \in 1..Len(trace) :
            (trace[j].fn \in Range(CallOrder) /\ trace[j].out.kind = "raise")
            => /\ j = Len(trace)
               /\ pc = "raised"
               /\ outcome = trace[j].out

\* C6 witness: the transform fails in the second iteration, with one result
\* already in the buffer.
C6_Witness ==
    /\ op = "bootstrap_pre_transform" /\ pc = "raised"
    /\ Len(results) = 1 /\ Len(trace) = 6
    /\ trace[6].fn = "transform" /\ trace[6].out.kind = "raise"


AllIdentical(sets) == \A k \in 1..Len(sets) : sets[k] = sets[1]

\* The ensemble has at least one series and its correlation matrix has no
\* inverse: all its series are identical, or the matrix of line 81 has
\* determinant zero.
NotInvertible(sets) ==
    /\ Len(sets) >= 1
    /\ \/ AllIdentical(sets)
       \/ /\ correlation_matrix(sets).kind = "return"
          /\ Det(correlation_matrix(sets).val[1].num) = 0

MinimizerCalls == {"generate_chi_sq_minimizer", "minimize", "chi_sq_minimizer"}

\* C7: whenever the correlation matrix of curve_fit_correlated is not
\* invertible (in particular for an ensemble of identical series), the call
\* fails with a singular-matrix error, the chi-square minimizer is never
\* built or run, and no (params, chi_square) pair is returned.
C7_SingularMatrixError ==
    (op = "curve_fit_correlated" /\ pc = "done" /\ NotInvertible(args.ydata))
    => /\ outcome = Raise("LinAlgError")
       /\ \A j \in 1..Len(trace) : trace[j].fn \notin MinimizerCalls

\* The points the window of omit_pre and omit_post leaves of len(x) points.
UsedPoints ==
    IF Len(args.x) - args.omit_pre - args.omit_post < 0 THEN 0
    ELSE Len(args.x) - args.omit_pre - args.omit_post

\* C8: in corrfit.fit, whenever used points - 1 - number of parameters <= 0
\* the call fails with InvalidDegreesOfFreedom and returns no triple.
C8_InvalidDegreesOfFreedom ==
    (op = "fit" /\ pc = "done" /\ UsedPoints - 1 - Len(args.p0) <= 0)
    => outcome = Raise("InvalidDegreesOfFreedom")

\* C9: when the optimizer inside curve_fit_correlated finishes without
\* success, curve_fit_correlated ends in an error and does not return the
\* optimizer's last parameter vector and chi-square as a fit result.
C9_NonConvergenceIsError ==
    (op = "curve_fit_correlated" /\ pc = "done"
        /\ \E j \in 1..Len(trace) :
              trace[j].fn = "minimize" /\ ~ trace[j].out.val.success)
    => outcome.kind = "raise"

C11_WindowingCompletes ==
    (op = "fit" /\ pc = "done")
    => /\ \E j \in 1..Len(trace) :
             /\ trace[j].fn = "_cut"
             /\ trace[j].out.kind = "return"
             /\ \E k \in 1..Len(trace) :
                   /\ trace[k].fn = "correlation_matrix"
                   /\ Len(trace[k].arg) = Len(args.y)
                   /\ \A i \in 1..Len(trace[k].arg) :
                         Len(trace[k].arg[i]) = Len(trace[j].out.val[1])
       /\ outcome # Raise("TypeError")

====
